---- MODULE Spec2Model ----
(***************************************************************************)
(* A model of the recommendation core of src/function.py: the co-occurrence *)
(* graph (build_game_graph), the genre tree (build_genre_tree), the         *)
(* popularity table (build_popularity_stats, get_top10_overall_games) and   *)
(* the three recommenders (recommend_by_graph,                              *)
(* recommend_by_tree_random_high_rating, hybrid_recommendation).            *)
(*                                                                         *)
(* Data frames are sequences of rows, dicts are functions, lists are        *)
(* sequences.  A networkx graph is its adjacency dict: node -> list of      *)
(* (neighbour, weight) in insertion order.  An anytree tree is the list of  *)
(* the root's children, each with its name and the list of its leaves.      *)
(***************************************************************************)
EXTENDS Integers, Sequences, FiniteSets, TLC

VARIABLES df_user_items, df_games, game_graph, genre_tree_root, pop_stats,
          id_to_name, name_to_id, id_to_rating, pc, call, ret

vars == <<df_user_items, df_games, game_graph, genre_tree_root, pop_stats,
          id_to_name, name_to_id, id_to_rating, pc, call, ret>>

(***************************************************************************)
(* Generic list helpers (Python list semantics).                           *)
(***************************************************************************)
Range(s) == {s[i] : i \in DOMAIN s}

Min(a, b) == IF a <= b THEN a ELSE b

Max(a, b) == IF a >= b THEN a ELSE b

\* s[:k], negative k counting from the end as Python does.
PySlice(s, k) ==
    IF k >= 0 THEN SubSeq(s, 1, Min(k, Len(s)))
    ELSE SubSeq(s, 1, Max(Len(s) + k, 0))

\* All sequences over S of length at most n.
SeqsUpTo(S, n) == UNION {[1..k -> S] : k \in 0..n}

\* All orders in which the elements of the finite set S can be listed.
Perms(S) == {p \in [1..Cardinality(S) -> S] : Range(p) = S}

EmptyDict == [x \in {} |-> 0]

RootName == "All Games"

\* Node(name): a node without children
NewNode(name) == [name |-> name, children |-> <<>>]

(***************************************************************************)
(* The universes the inputs are drawn from.                                *)
(***************************************************************************)
\* user ids, in the order pandas' groupby sorts them
Users == <<"u1", "u2">>

UserIds == Range(Users)

\* item ids of the graph-construction inputs
BuildItems == {"10", "20", "30"}

\* rows of the ownership frame in the graph-construction specification
MaxRows == 5

(***************************************************************************)
(* build_game_graph                                                        *)
(***************************************************************************)
\* df.groupby('user_id')['item_id'].apply(list): one list per user that has
\* a row, users in sorted order, items in row order.
RECURSIVE ItemsOf(_, _)
ItemsOf(df, u) ==
    IF df = <<>> THEN <<>>
    ELSE IF Head(df).user_id = u THEN <<Head(df).item_id>> \o ItemsOf(Tail(df), u)
         ELSE ItemsOf(Tail(df), u)

GroupByUser(df) ==
    LET present == SelectSeq(Users, LAMBDA u : \E i \in DOMAIN df : df[i].user_id = u)
    IN  [k \in DOMAIN present |-> [user_id |-> present[k], item_list |-> ItemsOf(df, present[k])]]

HasNode(G, n) == n \in DOMAIN G

AddNode(G, n) == IF HasNode(G, n) THEN G ELSE G @@ (n :> <<>>)

HasEdge(G, a, b) == a \in DOMAIN G /\ \E i \in DOMAIN G[a] : G[a][i].nb = b

\* G.add_edge(a, b, weight=w) for an edge that is absent: one attribute dict,
\* entered under a in b's adjacency and under b in a's.
AddEdge(G, a, b, w) ==
    LET H == AddNode(AddNode(G, a), b)
    IN  [H EXCEPT ![a] = Append(H[a], [nb |-> b, weight |-> w]),
                  ![b] = Append(H[b], [nb |-> a, weight |-> w])]

BumpEntry(adj, b) ==
    [i \in DOMAIN adj |-> IF adj[i].nb = b
                          THEN [adj[i] EXCEPT !.weight = @ + 1] ELSE adj[i]]

IncWeightOneSided(G, a, b) == [G EXCEPT ![a] = BumpEntry(G[a], b)]

\* G[a][b]['weight'] += 1: the attribute dict is shared by both directions.
IncWeight(G, a, b) ==
    [G EXCEPT ![a] = BumpEntry(G[a], b), ![b] = BumpEntry(G[b], a)]

\* The body of the inner loop, lines 230-242.
AddPair(G, gameA, gameB) ==
    LET H == AddNode(AddNode(G, gameA), gameB)
    IN  IF ~HasEdge(H, gameA, gameB) THEN AddEdge(H, gameA, gameB, 1)
        ELSE IncWeight(H, gameA, gameB)

\* for i in range(len(unique_items)): for j in range(i + 1, len(unique_items))
RECURSIVE PairLoop(_, _, _, _)
PairLoop(G, unique_items, i, j) ==
    IF i > Len(unique_items) THEN G
    ELSE IF j > Len(unique_items) THEN PairLoop(G, unique_items, i + 1, i + 2)
    ELSE PairLoop(AddPair(G, unique_items[i], unique_items[j]), unique_items, i, j + 1)

\* list(set(item_list)): the distinct items, in an iteration order the
\* language leaves open (it depends on the hashes): every order is possible.
UniqueItems(item_list) == Perms(Range(item_list))

\* if len(unique_items) < 2: continue
SkipSmall(unique_items) == Len(unique_items) < 2

\* a build that enters every listed item as a node before the length test
ProcessUserNodesFirst(G, unique_items) ==
    PairLoop(G @@ [n \in Range(unique_items) |-> <<>>], unique_items, 1, 2)

ProcessUser(G, unique_items) ==
    IF SkipSmall(unique_items) THEN G ELSE PairLoop(G, unique_items, 1, 2)

\* The graphs build_game_graph can return on the grouped lists from index k
\* on, starting from G: one per choice of the sets' iteration orders.
RECURSIVE BuildFrom(_, _, _)
BuildFrom(Gs, grouped, k) ==
    IF k > Len(grouped) THEN Gs
    ELSE BuildFrom(UNION {{ProcessUser(G, ui) : ui \in UniqueItems(grouped[k].item_list)} : G \in Gs},
                   grouped, k + 1)

build_game_graph(df) == BuildFrom({EmptyDict}, GroupByUser(df), 1)

(***************************************************************************)
(* Reading a graph                                                         *)
(***************************************************************************)
Nodes(G) == DOMAIN G

Neighbors(G, a) == IF a \in DOMAIN G THEN {G[a][i].nb : i \in DOMAIN G[a]} ELSE {}

\* the weights recorded for b in a's adjacency (one entry when the edge exists)
WeightsOf(G, a, b) ==
    IF a \in DOMAIN G THEN {G[a][i].weight : i \in {i \in DOMAIN G[a] : G[a][i].nb = b}} ELSE {}

\* what the ownership frame says
Owned(df, u) == {df[i].item_id : i \in {i \in DOMAIN df : df[i].user_id = u}}

CoOwners(df, a, b) == {u \in UserIds : a \in Owned(df, u) /\ b \in Owned(df, u)}

Owners(df, a) == {u \in UserIds : a \in Owned(df, u)}

(***************************************************************************)
(* State machine: construction of the graph                                *)
(***************************************************************************)
OwnershipRows == [user_id : UserIds, item_id : BuildItems]

NoCall == [op |-> "none"]

NoRet == [outcome |-> "none", value |-> <<>>]

\* a call returns a list
Listed(value) == [outcome |-> "list", value |-> value]

\* an exception reaches the caller
Raised == [outcome |-> "error", value |-> <<>>]

InitGraphBuild ==
    /\ df_user_items \in SeqsUpTo(OwnershipRows, MaxRows)
    /\ game_graph = EmptyDict
    /\ df_games = <<>>
    /\ genre_tree_root = NewNode(RootName)
    /\ pop_stats = <<>>
    /\ id_to_name = EmptyDict
    /\ name_to_id = EmptyDict
    /\ id_to_rating = EmptyDict
    /\ call = NoCall
    /\ ret = NoRet
    /\ pc = "loaded"

BuildGameGraph ==
    /\ pc = "loaded"
    /\ game_graph' \in build_game_graph(df_user_items)
    /\ pc' = "graph_built"
    /\ UNCHANGED <<df_user_items, df_games, genre_tree_root, pop_stats,
                   id_to_name, name_to_id, id_to_rating, call, ret>>

NextGraphBuild == BuildGameGraph

SpecGraphBuild == InitGraphBuild /\ [][NextGraphBuild]_vars

(***************************************************************************)
(* C1: after build_game_graph, for distinct item ids A and B the edge (A,B) *)
(* exists iff some user owns both, its weight is the number of distinct     *)
(* users owning both (so >= 1), it reads the same in both directions, and   *)
(* no node is its own neighbour.                                           *)
(***************************************************************************)
C1_Weights ==
    pc = "graph_built" =>
        /\ \A a \in BuildItems : \A b \in BuildItems \ {a} :
              /\ HasEdge(game_graph, a, b) <=> CoOwners(df_user_items, a, b) # {}
              /\ HasEdge(game_graph, a, b) =>
                    /\ WeightsOf(game_graph, a, b) = {Cardinality(CoOwners(df_user_items, a, b))}
                    /\ WeightsOf(game_graph, b, a) = WeightsOf(game_graph, a, b)
                    /\ \A w \in WeightsOf(game_graph, a, b) : w >= 1
                    /\ Cardinality({i \in DOMAIN game_graph[a] : game_graph[a][i].nb = b}) = 1
        /\ \A a \in BuildItems : ~HasEdge(game_graph, a, a)

\* a user lists an item twice, two users share a pair: weight 2
C1_Witness ==
    /\ pc = "graph_built"
    /\ \E a \in BuildItems : \E b \in BuildItems \ {a} :
          /\ WeightsOf(game_graph, a, b) = {2}
          /\ \E i, j \in DOMAIN df_user_items : i # j /\ df_user_items[i] = df_user_items[j]
                /\ df_user_items[i].item_id = a

(***************************************************************************)
(* C2: the node set of the built graph equals the set of item ids that     *)
(* appear in at least one user's ownership set.                            *)
(***************************************************************************)
C2_NodesAreAllOwnedItems ==
    pc = "graph_built" =>
        Nodes(game_graph) = {a \in BuildItems : Owners(df_user_items, a) # {}}

\* C2 as amended: the nodes are the items owned by a user with at least two
\* distinct items.
C2_NodesAreItemsOfMultiOwners ==
    pc = "graph_built" =>
        Nodes(game_graph) =
            {a \in BuildItems : \E u \in Owners(df_user_items, a) :
                                   Cardinality(Owned(df_user_items, u)) >= 2}

\* an item owned only by a single-item user, beside a built pair
C2_Witness ==
    /\ pc = "graph_built"
    /\ Nodes(game_graph) # {}
    /\ \E a \in BuildItems : /\ Owners(df_user_items, a) # {}
                             /\ a \notin Nodes(game_graph)

(***************************************************************************)
(* build_genre_tree                                                        *)
(***************************************************************************)
\* A 'genres' cell is a Python value: a list (is_list) or something else
\* (NaN, a tuple, ...) whose content is carried in items too.
PyList(items) == [is_list |-> TRUE, items |-> items]

NotAList(items) == [is_list |-> FALSE, items |-> items]

\* genres if isinstance(genres, list) else []
GenresOrEmpty(genres) == IF genres.is_list THEN genres.items ELSE <<>>

\* the position among the root's children of the node genre_dict holds for g
\* (0: g not in genre_dict); genre_dict maps each genre to the node made on
\* its first occurrence, and the root gains children nowhere else
GenreIndex(root, g) ==
    LET hit == {i \in DOMAIN root.children : root.children[i].name = g}
    IN  IF hit = {} THEN 0 ELSE CHOOSE i \in hit : \A j \in hit : i <= j

AttachLeafFresh(root, g, game_name) ==
    [root EXCEPT !.children = Append(@, [name |-> g, children |-> <<NewNode(game_name)>>])]

\* lines 283-285
AttachLeaf(root, g, game_name) ==
    LET withGenre == IF GenreIndex(root, g) = 0
                     THEN [root EXCEPT !.children = Append(@, NewNode(g))]
                     ELSE root
        k == GenreIndex(withGenre, g)
    IN  [withGenre EXCEPT !.children[k].children = Append(@, NewNode(game_name))]

\* for g in genres
RECURSIVE GenreLoop(_, _, _)
GenreLoop(root, genres, game_name) ==
    IF genres = <<>> THEN root
    ELSE GenreLoop(AttachLeaf(root, Head(genres), game_name), Tail(genres), game_name)

\* for idx, row in df_games.iterrows()
RECURSIVE GameLoop(_, _)
GameLoop(root, df) ==
    IF df = <<>> THEN root
    ELSE GameLoop(GenreLoop(root, GenresOrEmpty(Head(df).genres), Head(df).app_name), Tail(df))

build_genre_tree(df) == GameLoop(NewNode(RootName), df)

(***************************************************************************)
(* State machine: construction of the tree                                 *)
(***************************************************************************)
\* games of the tree-construction inputs
MaxGames == 2

CatalogIds == {"10", "20"}

Names == {"Doom", "DOOM", "Quake"}

Genres == {"Action", "RPG"}

GenreCells == {PyList(l) : l \in SeqsUpTo(Genres, 2)} \cup {NotAList(<<"Action">>), NotAList(<<>>)}

GameRows == [id : CatalogIds, app_name : Names, genres : GenreCells]

InitTreeBuild ==
    /\ df_games \in SeqsUpTo(GameRows, MaxGames)
    /\ df_user_items = <<>>
    /\ game_graph = EmptyDict
    /\ genre_tree_root = NewNode(RootName)
    /\ pop_stats = <<>>
    /\ id_to_name = EmptyDict
    /\ name_to_id = EmptyDict
    /\ id_to_rating = EmptyDict
    /\ call = NoCall
    /\ ret = NoRet
    /\ pc = "loaded"

BuildGenreTree ==
    /\ pc = "loaded"
    /\ genre_tree_root' = build_genre_tree(df_games)
    /\ pc' = "tree_built"
    /\ UNCHANGED <<df_user_items, df_games, game_graph, pop_stats,
                   id_to_name, name_to_id, id_to_rating, call, ret>>

NextTreeBuild == BuildGenreTree

SpecTreeBuild == InitTreeBuild /\ [][NextTreeBuild]_vars

\* what the game frame says: the genre occurrences of list-shaped cells, in
\* input order, each with the game's name
RECURSIVE Occurrences(_)
Occurrences(df) ==
    IF df = <<>> THEN <<>>
    ELSE LET row == Head(df)
             gs == IF row.genres.is_list THEN row.genres.items ELSE <<>>
         IN  [i \in DOMAIN gs |-> [genre |-> gs[i], name |-> row.app_name]] \o Occurrences(Tail(df))

\* the distinct elements of s, each at its first position
RECURSIVE FirstSeen(_)
FirstSeen(s) ==
    IF s = <<>> THEN <<>>
    ELSE LET init == FirstSeen(SubSeq(s, 1, Len(s) - 1))
         IN  IF s[Len(s)] \in Range(init) THEN init ELSE Append(init, s[Len(s)])

NamesOfNodes(nodes) == [i \in DOMAIN nodes |-> nodes[i].name]

(***************************************************************************)
(* C3: after build_genre_tree the root has one child per distinct genre,   *)
(* in first-seen order; the leaves under genre g are one per (game,        *)
(* occurrence of g in its genres), named after the game, in input order;   *)
(* games with empty or non-list genres give no leaf; depth is at most 2.   *)
(***************************************************************************)
C3_TreeShape ==
    pc = "tree_built" =>
        LET occ == Occurrences(df_games)
            kids == genre_tree_root.children
        IN  /\ genre_tree_root.name = RootName
            /\ NamesOfNodes(kids) = FirstSeen([i \in DOMAIN occ |-> occ[i].genre])
            /\ \A k \in DOMAIN kids :
                  /\ NamesOfNodes(kids[k].children) =
                        LET mine == SelectSeq(occ, LAMBDA o : o.genre = kids[k].name)
                        IN  [i \in DOMAIN mine |-> mine[i].name]
                  /\ \A i \in DOMAIN kids[k].children : kids[k].children[i].children = <<>>

\* a game listing one genre twice beside a game with a non-list genres cell
C3_Witness ==
    /\ pc = "tree_built"
    /\ \E i, j \in DOMAIN df_games :
          /\ ~df_games[i].genres.is_list /\ df_games[i].genres.items # <<>>
          /\ df_games[j].genres = PyList(<<"RPG", "RPG">>)
    /\ Len(genre_tree_root.children) = 1
    /\ Len(genre_tree_root.children[1].children) = 2


(***************************************************************************)
(* build_popularity_stats                                                  *)
(***************************************************************************)
\* item ids in the order pandas' groupby sorts them
ItemsSorted == <<"10", "20", "30", "40">>

UsersOfItem(df, item) == {df[i].user_id : i \in {i \in DOMAIN df : df[i].item_id = item}}

\* df_user_items.groupby('item_id')['user_id'].nunique().reset_index():
\* one row per item id that has a row, in sorted order
PopDf(df) ==
    LET present == SelectSeq(ItemsSorted, LAMBDA it : UsersOfItem(df, it) # {})
    IN  [k \in DOMAIN present |->
            [item_id |-> present[k], popularity |-> Cardinality(UsersOfItem(df, present[k]))]]

\* the rows of df_games whose id is the key, in frame order, joined to left
MatchesOf(left, games) ==
    LET hits == SelectSeq(games, LAMBDA g : g.id = left.item_id)
    IN  [i \in DOMAIN hits |->
            [item_id |-> left.item_id, app_name |-> hits[i].app_name,
             genres |-> GenresOrEmpty(hits[i].genres), popularity |-> left.popularity]]

\* pd.merge(pop_df, df_games, left_on='item_id', right_on='id', how='inner'):
\* one row per (left row, matching right row), left order kept
RECURSIVE InnerMerge(_, _)
InnerMerge(pop_df, games) ==
    IF pop_df = <<>> THEN <<>>
    ELSE MatchesOf(Head(pop_df), games) \o InnerMerge(Tail(pop_df), games)

build_popularity_stats(games, df) == InnerMerge(PopDf(df), games)

(***************************************************************************)
(* State machine: construction of the popularity table                     *)
(***************************************************************************)
\* rows of the ownership frame in the popularity specification
MaxPopRows == 3

\* "30" is owned and has no metadata, "40" has metadata and no owner
PopOwnedItems == {"10", "30"}

PopGameRows == [id : {"10", "40"}, app_name : {"Doom", "DOOM"},
                genres : {PyList(<<"Action">>), NotAList(<<"Action">>)}]

InitPop ==
    /\ df_user_items \in SeqsUpTo([user_id : UserIds, item_id : PopOwnedItems], MaxPopRows)
    /\ df_games \in SeqsUpTo(PopGameRows, MaxGames)
    /\ game_graph = EmptyDict
    /\ genre_tree_root = NewNode(RootName)
    /\ pop_stats = <<>>
    /\ id_to_name = EmptyDict
    /\ name_to_id = EmptyDict
    /\ id_to_rating = EmptyDict
    /\ call = NoCall
    /\ ret = NoRet
    /\ pc = "loaded"

BuildPopularityStats ==
    /\ pc = "loaded"
    /\ pop_stats' = build_popularity_stats(df_games, df_user_items)
    /\ pc' = "pop_built"
    /\ UNCHANGED <<df_user_items, df_games, game_graph, genre_tree_root,
                   id_to_name, name_to_id, id_to_rating, call, ret>>

NextPop == BuildPopularityStats

SpecPop == InitPop /\ [][NextPop]_vars

RowsFor(table, item) == {i \in DOMAIN table : table[i].item_id = item}

GameIds(games) == {games[i].id : i \in DOMAIN games}

(***************************************************************************)
(* C4: build_popularity_stats returns exactly one row per item id present  *)
(* both in the ownership data and in the metadata, whose popularity is the *)
(* number of distinct users owning it; other item ids have no row.         *)
(***************************************************************************)
C4_OneRowPerMatchedItem ==
    pc = "pop_built" =>
        \A it \in Range(ItemsSorted) :
            /\ Cardinality(RowsFor(pop_stats, it)) =
                  IF Owners(df_user_items, it) # {} /\ it \in GameIds(df_games) THEN 1 ELSE 0
            /\ \A i \in RowsFor(pop_stats, it) :
                  pop_stats[i].popularity = Cardinality(Owners(df_user_items, it))

\* what the code does hold to: one row per metadata record of an owned id
C4_OneRowPerMatchedRecord ==
    pc = "pop_built" =>
        \A it \in Range(ItemsSorted) :
            /\ Cardinality(RowsFor(pop_stats, it)) =
                  IF Owners(df_user_items, it) # {}
                  THEN Cardinality({j \in DOMAIN df_games : df_games[j].id = it}) ELSE 0
            /\ \A i \in RowsFor(pop_stats, it) :
                  pop_stats[i].popularity = Cardinality(Owners(df_user_items, it))


(***************************************************************************)
(* get_top10_overall_games                                                 *)
(*                                                                         *)
(* sort_values(by='popularity', ascending=False) is called without `kind`, *)
(* so pandas sorts with its default kind='quicksort': nargsort reverses    *)
(* the column, calls numpy's argsort(kind='quicksort') on it and reverses  *)
(* the result.  numpy's quicksort is an introsort: median-of-three         *)
(* partitioning above SmallQuicksort elements, insertion sort at and below *)
(* it.  (Builds with vectorised sort kernels order ties differently again; *)
(* none promises stability.  The depth limit that falls back to heapsort   *)
(* is not reached by frames this small.)                                   *)
(***************************************************************************)
SmallQuicksort == 16

TopK == 10

Swap(t, i, j) == [t EXCEPT ![i] = t[j], ![j] = t[i]]

\* the three conditional swaps that order v at pl, pm, pr
MedianOfThree(v, t, pl, pm, pr) ==
    LET t1 == IF v[t[pm]] < v[t[pl]] THEN Swap(t, pm, pl) ELSE t
        t2 == IF v[t1[pr]] < v[t1[pm]] THEN Swap(t1, pr, pm) ELSE t1
    IN  IF v[t2[pm]] < v[t2[pl]] THEN Swap(t2, pm, pl) ELSE t2

\* do { ++pi; } while (v[*pi] < vp)
RECURSIVE ScanUp(_, _, _, _)
ScanUp(v, t, pi, vp) == IF v[t[pi + 1]] < vp THEN ScanUp(v, t, pi + 1, vp) ELSE pi + 1

\* do { --pj; } while (vp < v[*pj])
RECURSIVE ScanDown(_, _, _, _)
ScanDown(v, t, pj, vp) == IF vp < v[t[pj - 1]] THEN ScanDown(v, t, pj - 1, vp) ELSE pj - 1

RECURSIVE PartitionLoop(_, _, _, _, _)
PartitionLoop(v, t, pi, pj, vp) ==
    LET i == ScanUp(v, t, pi, vp)
        j == ScanDown(v, t, pj, vp)
    IN  IF i >= j THEN [t |-> t, pi |-> i]
        ELSE PartitionLoop(v, Swap(t, i, j), i, j, vp)

Partition(v, t, pl, pr) ==
    LET pm == pl + ((pr - pl) \div 2)
        t1 == MedianOfThree(v, t, pl, pm, pr)
        vp == v[t1[pm]]
        t2 == Swap(t1, pm, pr - 1)
        p  == PartitionLoop(v, t2, pl, pr - 1, vp)
    IN  [t |-> Swap(p.t, p.pi, pr - 1), pi |-> p.pi]

\* while (pj > pl && vp < v[*pk]) { *pj-- = *pk--; }  *pj = vi
RECURSIVE ShiftIn(_, _, _, _, _)
ShiftIn(v, t, pl, pj, vi) ==
    IF pj > pl /\ v[vi] < v[t[pj - 1]]
    THEN ShiftIn(v, [t EXCEPT ![pj] = t[pj - 1]], pl, pj - 1, vi)
    ELSE [t EXCEPT ![pj] = vi]

RECURSIVE InsertionSort(_, _, _, _, _)
InsertionSort(v, t, pl, pr, pi) ==
    IF pi > pr THEN t
    ELSE InsertionSort(v, ShiftIn(v, t, pl, pi, t[pi]), pl, pr, pi + 1)

\* the sorted index over positions pl..pr (the two sides of a partition are
\* disjoint, so the order in which the stack serves them does not matter)
RECURSIVE AQuickSort(_, _, _, _)
AQuickSort(v, t, pl, pr) ==
    IF pr - pl > SmallQuicksort
    THEN LET p == Partition(v, t, pl, pr)
         IN  AQuickSort(v, AQuickSort(v, p.t, pl, p.pi - 1), p.pi + 1, pr)
    ELSE InsertionSort(v, t, pl, pr, pl + 1)

\* v.argsort(kind='quicksort')
ArgSort(v) == AQuickSort(v, [i \in DOMAIN v |-> i], 1, Len(v))

Reverse(s) == [i \in DOMAIN s |-> s[Len(s) + 1 - i]]

\* nargsort(column, ascending=False): the row numbers in sorted order
NArgSortDescending(column) ==
    LET non_nans == Reverse(column)
        non_nan_idx == Reverse([i \in DOMAIN column |-> i])
        order == ArgSort(non_nans)
    IN  Reverse([k \in DOMAIN order |-> non_nan_idx[order[k]]])

\* the row numbers of pop_stats.sort_values(by='popularity', ascending=False).head(10)
Top10Rows(table) ==
    PySlice(NArgSortDescending([i \in DOMAIN table |-> table[i].popularity]), TopK)

get_top10_overall_games(table) ==
    LET rows == Top10Rows(table) IN [k \in DOMAIN rows |-> table[rows[k]].app_name]

(***************************************************************************)
(* State machine: the overall ranking of a popularity table                *)
(***************************************************************************)
\* rows of the popularity tables ranked
MaxTableRows == 18

\* rows owned by two users; every other row is owned by one
MaxHot == 2

\* a table of n games of which those in hot have two owners
TableOf(n, hot) ==
    [i \in 1..n |-> [item_id |-> ToString(i), app_name |-> ToString(i), genres |-> <<>>,
                     popularity |-> IF i \in hot THEN 2 ELSE 1]]

TopTables ==
    {TableOf(n, hot) : n \in 0..MaxTableRows,
                       hot \in {h \in SUBSET (1..MaxTableRows) : Cardinality(h) <= MaxHot}}

InitTop ==
    /\ pop_stats \in TopTables
    /\ df_user_items = <<>>
    /\ df_games = <<>>
    /\ game_graph = EmptyDict
    /\ genre_tree_root = NewNode(RootName)
    /\ id_to_name = EmptyDict
    /\ name_to_id = EmptyDict
    /\ id_to_rating = EmptyDict
    /\ call = NoCall
    /\ ret = NoRet
    /\ pc = "ready"

GetTop10OverallGames ==
    /\ pc = "ready"
    /\ call' = [op |-> "get_top10_overall_games"]
    /\ ret' = Listed(get_top10_overall_games(pop_stats))
    /\ pc' = "returned"
    /\ UNCHANGED <<df_user_items, df_games, game_graph, genre_tree_root, pop_stats,
                   id_to_name, name_to_id, id_to_rating>>

\* the caller has used the result and is ready for the next call
Return ==
    /\ pc = "returned"
    /\ pc' = "ready"
    /\ call' = NoCall
    /\ ret' = NoRet
    /\ UNCHANGED <<df_user_items, df_games, game_graph, genre_tree_root, pop_stats,
                   id_to_name, name_to_id, id_to_rating>>

NextTop == GetTop10OverallGames \/ Return

SpecTop == InitTop /\ [][NextTop]_vars

\* the row that a stable descending sort puts at position k
StableRank(table, i) ==
    Cardinality({j \in DOMAIN table : table[j].popularity > table[i].popularity})
    + Cardinality({j \in 1..i : table[j].popularity = table[i].popularity})

StableDescending(table) ==
    [k \in DOMAIN table |-> CHOOSE i \in DOMAIN table : StableRank(table, i) = k]

(***************************************************************************)
(* C5: get_top10_overall_games returns min(10, rows) names by              *)
(* non-increasing popularity, rows of equal popularity keeping their table *)
(* order (a stable sort): the names of the first rows of the stable order. *)
(***************************************************************************)
C5_StableTop10 ==
    (pc = "returned" /\ call.op = "get_top10_overall_games") =>
        LET stable == StableDescending(pop_stats)
            n == Min(TopK, Len(pop_stats))
        IN  ret.value = [k \in 1..n |-> pop_stats[stable[k]].app_name]

\* what does hold: the length, the descending order, and the cut
C5_DescendingTop10 ==
    (pc = "returned" /\ call.op = "get_top10_overall_games") =>
        LET rows == Top10Rows(pop_stats)
        IN  /\ Len(ret.value) = Min(TopK, Len(pop_stats))
            /\ \A k \in DOMAIN rows : ret.value[k] = pop_stats[rows[k]].app_name
            /\ \A k, m \in DOMAIN rows : k # m => rows[k] # rows[m]
            /\ \A k \in 1..(Len(rows) - 1) :
                  pop_stats[rows[k]].popularity >= pop_stats[rows[k + 1]].popularity
            /\ \A i \in DOMAIN pop_stats \ Range(rows) : \A k \in DOMAIN rows :
                  pop_stats[i].popularity <= pop_stats[rows[k]].popularity


(***************************************************************************)
(* recommend_by_graph                                                      *)
(***************************************************************************)
\* insert x into the list s, sorted by descending weight, after every entry
\* of weight >= x's
RECURSIVE InsertDesc(_, _)
InsertDesc(s, x) ==
    IF s = <<>> THEN <<x>>
    ELSE IF Head(s).weight >= x.weight THEN <<Head(s)>> \o InsertDesc(Tail(s), x)
    ELSE <<x>> \o s

RECURSIVE InsertAsc(_, _)
InsertAsc(s, x) ==
    IF s = <<>> THEN <<x>>
    ELSE IF Head(s).weight <= x.weight THEN <<Head(s)>> \o InsertAsc(Tail(s), x)
    ELSE <<x>> \o s

RECURSIVE SortedAscending(_)
SortedAscending(s) ==
    IF s = <<>> THEN <<>> ELSE InsertAsc(SortedAscending(SubSeq(s, 1, Len(s) - 1)), s[Len(s)])

\* sorted(..., key=weight, reverse=True): Python's sort is stable, and with
\* reverse=True entries of equal key keep their original order
RECURSIVE SortedByWeightDesc(_)
SortedByWeightDesc(s) ==
    IF s = <<>> THEN <<>> ELSE InsertDesc(SortedByWeightDesc(SubSeq(s, 1, Len(s) - 1)), s[Len(s)])

\* an optional dict argument: None, or a dict
None == [given |-> FALSE, dict |-> EmptyDict]

Some(d) == [given |-> TRUE, dict |-> d]

\* lines 316-322: the names of the ids that are keys of the mapping
RECURSIVE FinalNames(_, _)
FinalNames(recommended_ids, d) ==
    IF recommended_ids = <<>> THEN <<>>
    ELSE IF Head(recommended_ids) \in DOMAIN d
         THEN <<d[Head(recommended_ids)]>> \o FinalNames(Tail(recommended_ids), d)
         ELSE FinalNames(Tail(recommended_ids), d)

\* the names of the first top_n known neighbours: the filter before the cut
NamesThenCut(sorted_neighbors, top_n, opt_id_to_name) ==
    LET ids == [i \in DOMAIN sorted_neighbors |-> sorted_neighbors[i].nb]
    IN  IF opt_id_to_name.given THEN PySlice(FinalNames(ids, opt_id_to_name.dict), top_n)
        ELSE PySlice(ids, top_n)

\* lines 312-324
CutThenNames(sorted_neighbors, top_n, opt_id_to_name) ==
    LET cut == PySlice(sorted_neighbors, top_n)
        recommended_ids == [i \in DOMAIN cut |-> cut[i].nb]
    IN  IF opt_id_to_name.given THEN FinalNames(recommended_ids, opt_id_to_name.dict)
        ELSE recommended_ids

recommend_by_graph(G, target_game_id, top_n, opt_id_to_name) ==
    IF target_game_id \notin DOMAIN G THEN <<>>
    ELSE CutThenNames(SortedByWeightDesc(G[target_game_id]), top_n, opt_id_to_name)

(***************************************************************************)
(* State machine: recommend_by_graph on built graphs                       *)
(***************************************************************************)
RecItems == {"10", "20", "30", "40"}

\* the display names main() reads from the game frame; two listings share one
ItemName == ("10" :> "Doom" @@ "20" :> "DOOM" @@ "30" :> "Quake" @@ "40" :> "Quake")

Restrict(f, S) == [x \in (DOMAIN f \cap S) |-> f[x]]

\* id_to_name dicts: every id named, or one id without a name
NameDicts == {Restrict(ItemName, RecItems \ miss) : miss \in {{}} \cup {{x} : x \in RecItems}}

\* the largest top_n asked for
MaxTopN == 3

\* the rows of a frame in which each user lists the items of own[u] once
RECURSIVE RowsOfSets(_, _, _)
RowsOfSets(own, k, items) ==
    IF k > Len(Users) THEN <<>>
    ELSE LET mine == SelectSeq(items, LAMBDA it : it \in own[Users[k]])
         IN  [i \in DOMAIN mine |-> [user_id |-> Users[k], item_id |-> mine[i]]]
             \o RowsOfSets(own, k + 1, items)

InitGraphRec ==
    /\ \E own \in [UserIds -> SUBSET RecItems] : df_user_items = RowsOfSets(own, 1, ItemsSorted)
    /\ game_graph \in build_game_graph(df_user_items)
    /\ df_games = <<>>
    /\ genre_tree_root = NewNode(RootName)
    /\ pop_stats = <<>>
    /\ id_to_name \in NameDicts
    /\ name_to_id = EmptyDict
    /\ id_to_rating = EmptyDict
    /\ call = NoCall
    /\ ret = NoRet
    /\ pc = "ready"

RecommendByGraph ==
    /\ pc = "ready"
    /\ \E target_game_id \in RecItems, top_n \in -1..MaxTopN, named \in BOOLEAN :
          /\ call' = [op |-> "recommend_by_graph", target_game_id |-> target_game_id,
                      top_n |-> top_n, named |-> named]
          /\ ret' = Listed(recommend_by_graph(game_graph, target_game_id, top_n,
                                              IF named THEN Some(id_to_name) ELSE None))
    /\ pc' = "returned"
    /\ UNCHANGED <<df_user_items, df_games, game_graph, genre_tree_root, pop_stats,
                   id_to_name, name_to_id, id_to_rating>>

NextGraphRec == RecommendByGraph \/ Return

SpecGraphRec == InitGraphRec /\ [][NextGraphRec]_vars

Degree(G, a) == Cardinality(Neighbors(G, a))

WeightTo(G, a, b) == CHOOSE w \in WeightsOf(G, a, b) : TRUE

\* ids is a ranking of the target's neighbours cut at top_n: min(top_n, degree)
\* distinct neighbours by non-increasing weight, none left out heavier than
\* one taken
IsTopRanking(G, target, top_n, ids) ==
    /\ Len(ids) = Min(top_n, Degree(G, target))
    /\ Range(ids) \subseteq Neighbors(G, target)
    /\ \A i, j \in DOMAIN ids : i # j => ids[i] # ids[j]
    /\ \A i \in 1..(Len(ids) - 1) : WeightTo(G, target, ids[i]) >= WeightTo(G, target, ids[i + 1])
    /\ \A x \in Neighbors(G, target) \ Range(ids) : \A i \in DOMAIN ids :
          WeightTo(G, target, x) <= WeightTo(G, target, ids[i])

GraphCall == pc = "returned" /\ call.op = "recommend_by_graph"

(***************************************************************************)
(* C6: recommend_by_graph without a name mapping returns [] for a target   *)
(* that is no node; otherwise, for top_n >= 0, min(top_n, degree) distinct *)
(* neighbour ids by non-increasing weight, no neighbour left out being     *)
(* heavier than one returned.                                              *)
(***************************************************************************)
C6_TopNeighbours ==
    (GraphCall /\ ~call.named) =>
        /\ call.target_game_id \notin Nodes(game_graph) => ret.value = <<>>
        /\ (call.target_game_id \in Nodes(game_graph) /\ call.top_n >= 0) =>
              IsTopRanking(game_graph, call.target_game_id, call.top_n, ret.value)

\* weights 2, 1, 1 and top_n = 2: the heavy neighbour and one of the others
C6_Witness ==
    /\ GraphCall /\ ~call.named /\ call.top_n = 2
    /\ call.target_game_id \in Nodes(game_graph)
    /\ Degree(game_graph, call.target_game_id) = 3
    /\ Len(ret.value) = 2
    /\ WeightTo(game_graph, call.target_game_id, ret.value[1]) = 2
    /\ WeightTo(game_graph, call.target_game_id, ret.value[2]) = 1

\* the subsequence of ids whose id is a key of d, as names
NamedOnly(ids, d) ==
    LET kept == SelectSeq(ids, LAMBDA x : x \in DOMAIN d)
    IN  [i \in DOMAIN kept |-> d[kept[i]]]

InjectiveSeqs(S, n) == {q \in [1..n -> S] : \A i, j \in 1..n : i # j => q[i] # q[j]}

(***************************************************************************)
(* C7: recommend_by_graph with a name mapping returns, in ranking order,   *)
(* the names of exactly those ids among the first top_n ranked neighbours  *)
(* that are keys of the mapping: unknown ids are dropped after the cut,    *)
(* nothing takes their place, so the result has at most top_n entries.     *)
(***************************************************************************)
C7_NamesAfterCut ==
    (GraphCall /\ call.named /\ call.top_n >= 0 /\ call.target_game_id \in Nodes(game_graph)) =>
        /\ Len(ret.value) <= call.top_n
        /\ \E ids \in InjectiveSeqs(Neighbors(game_graph, call.target_game_id),
                                    Min(call.top_n, Degree(game_graph, call.target_game_id))) :
              /\ IsTopRanking(game_graph, call.target_game_id, call.top_n, ids)
              /\ ret.value = NamedOnly(ids, id_to_name)

\* top_n = 1, the heaviest neighbour has no name, two lighter ones have: []
C7_Witness ==
    /\ GraphCall /\ call.named /\ call.top_n = 1
    /\ call.target_game_id \in Nodes(game_graph)
    /\ ret.value = <<>>
    /\ Cardinality(Neighbors(game_graph, call.target_game_id) \cap DOMAIN id_to_name) = 2


(***************************************************************************)
(* recommend_by_tree_random_high_rating                                    *)
(***************************************************************************)
\* str.lower() on the names that occur
Lower == ("Doom" :> "doom" @@ "DOOM" :> "doom" @@ "Quake" :> "quake" @@
          "Action" :> "action" @@ "RPG" :> "rpg" @@ "All Games" :> "all games")

RECURSIVE Flatten(_)
Flatten(ss) == IF ss = <<>> THEN <<>> ELSE Head(ss) \o Flatten(Tail(ss))

\* dfs(node), lines 401-406: the names of the children of every node named
\* target_genre, in preorder
RECURSIVE Dfs(_, _)
Dfs(node, target_genre) ==
    (IF node.name = target_genre THEN NamesOfNodes(node.children) ELSE <<>>)
    \o Flatten([i \in DOMAIN node.children |-> Dfs(node.children[i], target_genre)])

\* lines 411-416: (gname, rating) for the names whose lowercase is indexed;
\* ratings are percentages, 0 standing for the default 0.0
RECURSIVE RatedGames(_, _, _)
RatedGames(all_games_in_genre, n2i, i2r) ==
    IF all_games_in_genre = <<>> THEN <<>>
    ELSE LET gname == Head(all_games_in_genre)
             rest == RatedGames(Tail(all_games_in_genre), n2i, i2r)
         IN  IF Lower[gname] \in DOMAIN n2i
             THEN LET gid == n2i[Lower[gname]]
                      rating == IF gid \in DOMAIN i2r THEN i2r[gid] ELSE 0
                  IN  <<[gname |-> gname, rating |-> rating]>> \o rest
             ELSE rest

\* the same lookup done with setdefault, which enters the default under a
\* missing key
DictSetDefault(d, k, default) ==
    [value |-> IF k \in DOMAIN d THEN d[k] ELSE default,
     dict |-> IF k \in DOMAIN d THEN d ELSE d @@ (k :> default)]

\* d.get(k, default), line 415: the value read, and the dict as the lookup
\* leaves it (a missing key is not entered)
DictGet(d, k, default) ==
    [value |-> IF k \in DOMAIN d THEN d[k] ELSE default, dict |-> d]

\* id_to_rating as the loop of lines 412-416 leaves it
RECURSIVE RatingsAfter(_, _, _)
RatingsAfter(all_games_in_genre, n2i, i2r) ==
    IF all_games_in_genre = <<>> THEN i2r
    ELSE LET gname == Head(all_games_in_genre)
         IN  IF Lower[gname] \in DOMAIN n2i
             THEN RatingsAfter(Tail(all_games_in_genre), n2i,
                               DictGet(i2r, n2i[Lower[gname]], 0).dict)
             ELSE RatingsAfter(Tail(all_games_in_genre), n2i, i2r)

RECURSIVE InsertByRating(_, _)
InsertByRating(s, x) ==
    IF s = <<>> THEN <<x>>
    ELSE IF Head(s).rating >= x.rating THEN <<Head(s)>> \o InsertByRating(Tail(s), x)
    ELSE <<x>> \o s

\* a descending sort that lists entries of equal rating latest first
RECURSIVE SortedTiesReversed(_)
SortedTiesReversed(s) ==
    IF s = <<>> THEN <<>>
    ELSE InsertByRating(SortedTiesReversed(Tail(s)), Head(s))

\* rated_games.sort(key=rating, reverse=True): stable
RECURSIVE SortedByRatingDesc(_)
SortedByRatingDesc(s) ==
    IF s = <<>> THEN <<>>
    ELSE InsertByRating(SortedByRatingDesc(SubSeq(s, 1, Len(s) - 1)), s[Len(s)])

\* line 422
TopCandidates(root, target_genre, n2i, i2r, top_cutoff) ==
    PySlice(SortedByRatingDesc(RatedGames(Dfs(root, target_genre), n2i, i2r)), top_cutoff)

GNames(pairs) == [i \in DOMAIN pairs |-> pairs[i].gname]

\* a sample that may take one position twice
SampleWithReplacement(population, k) ==
    IF k < 0 \/ k > Len(population) THEN {Raised}
    ELSE {Listed([i \in 1..k |-> population[q[i]].gname]) : q \in [1..k -> DOMAIN population]}

\* random.sample(population, k): ValueError unless 0 <= k <= len, else the
\* entries at k distinct positions, in any order
RandomSample(population, k) ==
    IF k < 0 \/ k > Len(population) THEN {Raised}
    ELSE {Listed([i \in 1..k |-> population[q[i]].gname]) : q \in InjectiveSeqs(DOMAIN population, k)}

\* lines 423-433: every result the call can have
recommend_by_tree_random_high_rating(root, target_genre, n2i, i2r, num_random_picks, top_cutoff) ==
    LET top_candidates == TopCandidates(root, target_genre, n2i, i2r, top_cutoff)
    IN  IF top_candidates = <<>> THEN {Listed(<<>>)}
        ELSE IF Len(top_candidates) <= num_random_picks THEN {Listed(GNames(top_candidates))}
        ELSE RandomSample(top_candidates, num_random_picks)

(***************************************************************************)
(* State machine: recommend_by_tree_random_high_rating on built trees      *)
(***************************************************************************)
\* games of the frames the recommended-from trees are built of
MaxRecGames == 3

\* the largest num_random_picks asked for
MaxPicks == 2

\* the largest top_cutoff asked for
MaxCutoff == 3

\* two spellings of one game, and a game whose name is also a genre's
RecNames == {"Doom", "DOOM", "Action"}

\* lowercased name -> id, as main() builds it from the game frame
BaseNameToId == ("doom" :> "10" @@ "action" :> "20")

RecGameRows == {[id |-> BaseNameToId[Lower[n]], app_name |-> n, genres |-> PyList(<<g>>)] :
                   n \in RecNames, g \in Genres}

\* name_to_id dicts: the full index, or one without the key "action"
NameToIdDicts == {BaseNameToId, Restrict(BaseNameToId, {"doom"})}

BaseRating == ("10" :> 50 @@ "20" :> 100)

\* id_to_rating dicts: ids without reviews are absent
RatingDicts == {Restrict(BaseRating, K) : K \in SUBSET DOMAIN BaseRating}

TargetGenres == {"Action", RootName}

InitTreeRec ==
    /\ df_games \in SeqsUpTo(RecGameRows, MaxRecGames)
    /\ genre_tree_root = build_genre_tree(df_games)
    /\ name_to_id \in NameToIdDicts
    /\ id_to_rating \in RatingDicts
    /\ df_user_items = <<>>
    /\ game_graph = EmptyDict
    /\ pop_stats = <<>>
    /\ id_to_name = EmptyDict
    /\ call = NoCall
    /\ ret = NoRet
    /\ pc = "ready"

RecommendByTree ==
    /\ pc = "ready"
    /\ \E target_genre \in TargetGenres, num_random_picks \in -1..MaxPicks,
          top_cutoff \in -1..MaxCutoff :
          /\ call' = [op |-> "recommend_by_tree_random_high_rating",
                      target_genre |-> target_genre,
                      num_random_picks |-> num_random_picks, top_cutoff |-> top_cutoff]
          /\ ret' \in recommend_by_tree_random_high_rating(
                         genre_tree_root, target_genre, name_to_id, id_to_rating,
                         num_random_picks, top_cutoff)
          /\ id_to_rating' = RatingsAfter(Dfs(genre_tree_root, target_genre),
                                          name_to_id, id_to_rating)
    /\ pc' = "returned"
    /\ UNCHANGED <<df_user_items, df_games, game_graph, genre_tree_root, pop_stats,
                   id_to_name, name_to_id>>

NextTreeRec == RecommendByTree \/ Return

SpecTreeRec == InitTreeRec /\ [][NextTreeRec]_vars

TreeCall == pc = "returned" /\ call.op = "recommend_by_tree_random_high_rating"

\* the candidate pool P of the call made
Pool ==
    TopCandidates(genre_tree_root, call.target_genre, name_to_id, id_to_rating, call.top_cutoff)

(***************************************************************************)
(* C8: with candidate pool P and num_random_picks >= 0, the call returns   *)
(* the names of all of P in rating order when |P| <= num_random_picks ([]  *)
(* when P is empty), and otherwise exactly num_random_picks names taken    *)
(* from pairwise distinct positions of P.                                  *)
(***************************************************************************)
C8_PoolOrSample ==
    (TreeCall /\ call.num_random_picks >= 0) =>
        /\ ret.outcome = "list"
        /\ Len(Pool) <= call.num_random_picks => ret.value = GNames(Pool)
        /\ Len(Pool) > call.num_random_picks =>
              /\ Len(ret.value) = call.num_random_picks
              /\ \E q \in InjectiveSeqs(DOMAIN Pool, call.num_random_picks) :
                    ret.value = [i \in 1..call.num_random_picks |-> Pool[q[i]].gname]

\* a pool of three, two picked, in an order that is not the rating order
C8_Witness ==
    /\ TreeCall /\ call.num_random_picks = 2 /\ Len(Pool) = 3
    /\ Pool[1].rating > Pool[3].rating
    /\ ret.value = <<Pool[3].gname, Pool[1].gname>>
    /\ Pool[3].gname # Pool[1].gname

\* a pool smaller than the picks asked for comes back whole
C8_WitnessSmallPool ==
    /\ TreeCall /\ call.num_random_picks = 2 /\ Len(Pool) = 1
    /\ ret.value = GNames(Pool)


(***************************************************************************)
(* hybrid_recommendation                                                   *)
(***************************************************************************)
HybridTopN == 20

\* what the call leaves with: its result and the two sub-results it held
HybridResult(outcome, value, rec_graph_names, rec_tree_random) ==
    [outcome |-> outcome, value |-> value,
     rec_graph_names |-> rec_graph_names, rec_tree_random |-> rec_tree_random]

Union_(rec_graph_set, rec_tree_set) == rec_graph_set \cup rec_tree_set

\* line 366: rec_graph_set & rec_tree_set
Intersect(rec_graph_set, rec_tree_set) == rec_graph_set \cap rec_tree_set

\* lines 346-373: every result the call can have.  An exception of the tree
\* call is not caught; list(set) lists the intersection in an order the
\* language leaves open.
hybrid_recommendation(G, root, target_game_id, target_genre, i2n, n2i, i2r, num_random_picks, top_cutoff) ==
    LET rec_graph_names == recommend_by_graph(G, target_game_id, HybridTopN, Some(i2n))
        tree == recommend_by_tree_random_high_rating(root, target_genre, n2i, i2r,
                                                     num_random_picks, top_cutoff)
    IN  UNION {IF t.outcome = "error"
               THEN {HybridResult("error", <<>>, rec_graph_names, <<>>)}
               ELSE {HybridResult("list", final_rec, rec_graph_names, t.value) :
                        final_rec \in Perms(Intersect(Range(rec_graph_names), Range(t.value)))}
               : t \in tree}

(***************************************************************************)
(* State machine: the program after construction, as main() sets it up     *)
(***************************************************************************)
\* df_games.set_index('id')['app_name'].to_dict(): the last listing of an id wins
RECURSIVE IdToName(_)
IdToName(df) ==
    IF df = <<>> THEN EmptyDict
    ELSE LET row == df[Len(df)]
         IN  (row.id :> row.app_name) @@ IdToName(SubSeq(df, 1, Len(df) - 1))

\* main(), lines 70-74: name_to_id[app_name.lower()] = id, the last row wins
RECURSIVE NameToId(_)
NameToId(df) ==
    IF df = <<>> THEN EmptyDict
    ELSE LET row == df[Len(df)]
         IN  (Lower[row.app_name] :> row.id) @@ NameToId(SubSeq(df, 1, Len(df) - 1))

\* "30" is owned and is not in the game frame
MainItems == {"10", "20", "30"}

\* the game frames of this specification list some of these, in this order
MainGameRows ==
    <<[id |-> "10", app_name |-> "Doom", genres |-> PyList(<<"Action">>)],
      [id |-> "10", app_name |-> "Doom", genres |-> PyList(<<"Action", "RPG">>)],
      [id |-> "20", app_name |-> "Action", genres |-> PyList(<<"Action">>)],
      [id |-> "20", app_name |-> "Action", genres |-> NotAList(<<"Action">>)]>>

MainGameFrames ==
    {SelectSeq(MainGameRows, LAMBDA r : \E i \in K : MainGameRows[i] = r) :
        K \in SUBSET DOMAIN MainGameRows}

Init ==
    /\ \E own \in [UserIds -> SUBSET MainItems] : df_user_items = RowsOfSets(own, 1, ItemsSorted)
    /\ df_games \in MainGameFrames
    /\ id_to_name = IdToName(df_games)
    /\ id_to_rating \in {EmptyDict, BaseRating}
    /\ game_graph \in build_game_graph(df_user_items)
    /\ genre_tree_root = build_genre_tree(df_games)
    /\ pop_stats = build_popularity_stats(df_games, df_user_items)
    /\ name_to_id = NameToId(df_games)
    /\ call = NoCall
    /\ ret = NoRet
    /\ pc = "ready"

HybridRecommendation ==
    /\ pc = "ready"
    /\ \E target_game_id \in MainItems, target_genre \in TargetGenres,
          num_random_picks \in -1..MaxPicks, top_cutoff \in -1..MaxCutoff :
          /\ call' = [op |-> "hybrid_recommendation", target_game_id |-> target_game_id,
                      target_genre |-> target_genre,
                      num_random_picks |-> num_random_picks, top_cutoff |-> top_cutoff]
          /\ ret' \in hybrid_recommendation(game_graph, genre_tree_root, target_game_id,
                                            target_genre, id_to_name, name_to_id, id_to_rating,
                                            num_random_picks, top_cutoff)
          /\ id_to_rating' = RatingsAfter(Dfs(genre_tree_root, target_genre),
                                          name_to_id, id_to_rating)
    /\ pc' = "returned"
    /\ UNCHANGED <<df_user_items, df_games, game_graph, genre_tree_root, pop_stats,
                   id_to_name, name_to_id>>

Next == RecommendByGraph \/ RecommendByTree \/ HybridRecommendation \/ Return

Spec == Init /\ [][Next]_vars

HybridCall == pc = "returned" /\ call.op = "hybrid_recommendation"

\* the names of the target's ranked neighbours, cut at top_n, that have a name
IsGraphNameSet(G, target, top_n, d, names) ==
    IF target \notin Nodes(G) THEN names = {}
    ELSE \E ids \in InjectiveSeqs(Neighbors(G, target), Min(top_n, Degree(G, target))) :
            /\ IsTopRanking(G, target, top_n, ids)
            /\ names = Range(NamedOnly(ids, d))

(***************************************************************************)
(* C9: hybrid_recommendation returns a duplicate-free list whose elements  *)
(* are exactly the names common to recommend_by_graph's result for the     *)
(* target with top_n = 20 and the name mapping, and the result of its own  *)
(* call of recommend_by_tree_random_high_rating; so it is [] when either   *)
(* is empty, and an empty intersection is a list, not an error.            *)
(***************************************************************************)
C9_Intersection ==
    HybridCall =>
        /\ call.num_random_picks >= 0 => ret.outcome = "list"
        /\ ret.outcome = "list" =>
              /\ \A i, j \in DOMAIN ret.value : i # j => ret.value[i] # ret.value[j]
              /\ Range(ret.value) = Range(ret.rec_graph_names) \cap Range(ret.rec_tree_random)
              /\ IsGraphNameSet(game_graph, call.target_game_id, HybridTopN, id_to_name,
                                Range(ret.rec_graph_names))
              /\ Listed(ret.rec_tree_random) \in
                    recommend_by_tree_random_high_rating(
                        genre_tree_root, call.target_genre, name_to_id, id_to_rating,
                        call.num_random_picks, call.top_cutoff)
              /\ (ret.rec_graph_names = <<>> \/ ret.rec_tree_random = <<>>) => ret.value = <<>>

\* the graph result holds a name the tree result lacks, the tree result lists
\* one name twice, and the list returns it once
C9_Witness ==
    /\ HybridCall /\ ret.outcome = "list"
    /\ Len(ret.value) = 1
    /\ Range(ret.rec_graph_names) \ Range(ret.rec_tree_random) # {}
    /\ Len(ret.rec_tree_random) = 2
    /\ ret.rec_tree_random[1] = ret.rec_tree_random[2]

\* the sub-results share nothing: an empty list is returned
C9_WitnessEmpty ==
    /\ HybridCall /\ ret.outcome = "list" /\ ret.value = <<>>
    /\ ret.rec_graph_names # <<>> /\ ret.rec_tree_random # <<>>

(***************************************************************************)
(* C10: invalid configuration ends in a caller-visible error:              *)
(* recommend_by_graph with a negative top_n and                            *)
(* recommend_by_tree_random_high_rating with a negative num_random_picks   *)
(* raise instead of returning a list; with valid configuration no call     *)
(* raises, whatever the data lack.                                         *)
(***************************************************************************)
C10_InvalidConfigurationRaises ==
    /\ (pc = "returned" /\ call.op = "recommend_by_graph") =>
          (ret.outcome = "error" <=> call.top_n < 0)
    /\ (pc = "returned" /\ call.op = "recommend_by_tree_random_high_rating") =>
          (ret.outcome = "error" <=> call.num_random_picks < 0)

\* what does hold: only a negative num_random_picks with a non-empty pool raises
C10_OnlySampleRaises ==
    /\ (pc = "returned" /\ call.op = "recommend_by_graph") => ret.outcome = "list"
    /\ (pc = "returned" /\ call.op = "recommend_by_tree_random_high_rating") =>
          (ret.outcome = "error" <=> (call.num_random_picks < 0 /\ Pool # <<>>))

(***************************************************************************)
(* C11: after construction, no call of recommend_by_graph,                 *)
(* recommend_by_tree_random_high_rating or hybrid_recommendation, whatever *)
(* its arguments, changes the graph (nodes, edges, weights, adjacency      *)
(* order), the genre tree (nodes, links, child order), or the name_to_id,  *)
(* id_to_rating and id_to_name mappings.                                   *)
(***************************************************************************)
C11_CallsAreReads ==
    [][UNCHANGED <<game_graph, genre_tree_root, name_to_id, id_to_rating, id_to_name>>]_vars

\* a hybrid call has returned a name after reading a graph with an edge and
\* a tree leaf whose id has no rating (the lookup took the default), and the
\* structures are still the ones construction gave
C11_Witness ==
    /\ HybridCall /\ ret.outcome = "list"
    /\ ret.rec_tree_random # <<>>
    /\ \E n \in Range(ret.rec_tree_random) : name_to_id[Lower[n]] \notin DOMAIN id_to_rating
    /\ \E a \in Nodes(game_graph) : Neighbors(game_graph, a) # {}
    /\ genre_tree_root = build_genre_tree(df_games)
    /\ name_to_id = NameToId(df_games)
    /\ id_to_name = IdToName(df_games)

\* the names of the game leaves under the genre nodes (the children of the
\* root) named g
LeavesUnderGenre(root, g) ==
    UNION {Range(NamesOfNodes(root.children[i].children)) :
              i \in {j \in DOMAIN root.children : root.children[j].name = g}}

(***************************************************************************)
(* C12: every name recommend_by_tree_random_high_rating returns is the     *)
(* name of a game leaf whose parent is the depth-1 genre node named        *)
(* exactly target_genre, and its lowercase is a key of name_to_id; names   *)
(* of genre nodes and children of a node that is not a genre node (the     *)
(* root when target_genre is "All Games") are never returned.              *)
(***************************************************************************)
C12_OnlyLeavesOfTheGenre ==
    (TreeCall /\ ret.outcome = "list") =>
        \A n \in Range(ret.value) :
            /\ n \in LeavesUnderGenre(genre_tree_root, call.target_genre)
            /\ Lower[n] \in DOMAIN name_to_id

\* What the code ensures: every name returned is indexed and is the name of a
\* child of some node named target_genre, the root included; for a target
\* other than the root's name these are the leaves of the genre node.
C12_ChildrenOfNodesNamedTarget ==
    (TreeCall /\ ret.outcome = "list") =>
        /\ \A n \in Range(ret.value) :
              /\ n \in Range(Dfs(genre_tree_root, call.target_genre))
              /\ Lower[n] \in DOMAIN name_to_id
        /\ call.target_genre # RootName =>
              Range(ret.value) \subseteq LeavesUnderGenre(genre_tree_root, call.target_genre)

\* the names collected for the call made whose lowercase is indexed, in
\* tree-traversal order
Resolved ==
    SelectSeq(Dfs(genre_tree_root, call.target_genre), LAMBDA n : Lower[n] \in DOMAIN name_to_id)

\* the rating the k-th resolved name is ranked with: 0 for an id without one
RatingAt(k) ==
    LET gid == name_to_id[Lower[Resolved[k]]]
    IN  IF gid \in DOMAIN id_to_rating THEN id_to_rating[gid] ELSE 0

\* the place of the k-th resolved name in the stable descending order
RankAt(k) ==
    1 + Cardinality({j \in DOMAIN Resolved :
                        \/ RatingAt(j) > RatingAt(k)
                        \/ RatingAt(j) = RatingAt(k) /\ j < k})

\* the resolved names by rating descending, equal ratings in traversal order
Ranked == [r \in DOMAIN Resolved |-> Resolved[CHOOSE k \in DOMAIN Resolved : RankAt(k) = r]]

(***************************************************************************)
(* C13: the resolved (name, rating) pairs are ranked by rating descending, *)
(* equal ratings in tree-traversal order, an id without a rating counting  *)
(* as 0.0 and staying in; for top_cutoff >= 0 a returned list is drawn     *)
(* from pairwise distinct places among the first top_cutoff of the         *)
(* ranking, and is exactly those, in order, when they are at most          *)
(* num_random_picks.                                                       *)
(***************************************************************************)
C13_StableRankingCut ==
    (TreeCall /\ call.top_cutoff >= 0 /\ ret.outcome = "list") =>
        LET cut == Min(call.top_cutoff, Len(Resolved))
        IN  /\ \E q \in InjectiveSeqs(1..cut, Len(ret.value)) :
                  ret.value = [i \in DOMAIN ret.value |-> Ranked[q[i]]]
            /\ cut <= call.num_random_picks => ret.value = SubSeq(Ranked, 1, cut)

\* three resolved names, the sort moved the rated one to the front, the two
\* without a rating tie at the default and keep their traversal order, the
\* cut-off of 2 leaves the last one out
C13_Witness ==
    /\ TreeCall /\ call.top_cutoff = 2 /\ call.num_random_picks = 2
    /\ Len(Resolved) = 3
    /\ Resolved # Ranked
    /\ name_to_id[Lower[Resolved[1]]] \notin DOMAIN id_to_rating
    /\ RatingAt(1) = RatingAt(2) /\ Resolved[1] # Resolved[2]
    /\ ret.value = <<Resolved[3], Resolved[1]>>


====
